---- MODULE Spec2Model ----
(***************************************************************************)
(* The toy payments engine: a CSV reader task, the store_transactions      *)
(* task (Recorder), the process_transactions task (Applier) and the CSV    *)
(* writer (Emitter), sharing the transaction ledger and the client ledger. *)
(*                                                                         *)
(* Money is a rust_decimal::Decimal rounded to 4 fractional digits; the    *)
(* model counts it in units of 10^-4.  An input amount (Option<f32>) is    *)
(* an Option of a number in units of 10^-5, so that round_dp(4) has a      *)
(* digit to round away.  Option values are sequences of length <= 1.       *)
(***************************************************************************)
EXTENDS Integers, Sequences, FiniteSets, TLC

\* Rows in the input file.
MaxInstr == 5
\* The idle-poll retry budget of a stage (100000 in the code, scaled down).
RetryBudget == 2

Clients == {1, 2}
TxIds == {1, 2}
RecordableTypes == {"deposit", "withdrawal"}
PassThroughTypes == {"dispute", "resolve", "chargeback"}
\* A type tag neither stage knows.
InvalidType == "transfer"

None == << >>
Some(x) == << x >>
\* amount: Option<f32>, in units of 10^-5: absent, 0.00015, -0.00015
AmountInputs == {None, Some(15), Some(-15)}

\* struct Transaction: the rows the reader can decode.
Transaction ==
    [tx_type : RecordableTypes, client : Clients, tx : TxIds, amount : AmountInputs]
    \cup [tx_type : PassThroughTypes, client : Clients, tx : TxIds, amount : {None}]
    \cup [tx_type : {InvalidType}, client : {1}, tx : {1}, amount : {None}]

Row(type, client, tx, amount) ==
    [tx_type |-> type, client |-> client, tx |-> tx, amount |-> amount]

\* An input file is made of the rows of one vocabulary.
\* Client 1 deposits, withdraws, disputes, resolves and charges back under
\* transaction id 1, while client 2 deposits under transaction id 2.
OwnerFile ==
    {Row("deposit", 1, 1, a) : a \in AmountInputs}
    \cup {Row("withdrawal", 1, 1, Some(15)), Row("deposit", 2, 2, Some(15))}
    \cup {Row(type, 1, 1, None) : type \in PassThroughTypes}

\* Client 1 deposits under transaction id 1 and disputes it, client 2 deposits
\* under transaction id 2 and disputes, resolves and charges back client 1's
\* transaction.
StrangerFile ==
    {Row("deposit", 1, 1, Some(15)), Row("deposit", 2, 2, Some(15)),
     Row("dispute", 1, 1, None)}
    \cup {Row(type, 2, 1, None) : type \in PassThroughTypes}

\* Both clients deposit under transaction id 1, the later deposit replacing
\* the earlier record, and both dispute it.
ReuseFile ==
    {Row("deposit", 1, 1, Some(15)), Row("deposit", 2, 1, Some(15)),
     Row("dispute", 1, 1, None), Row("dispute", 2, 1, None),
     Row("resolve", 1, 1, None)}

LedgerFiles == {OwnerFile, StrangerFile, ReuseFile}

\* Smaller vocabularies, for runs of the whole pipeline: one client's deposit
\* with its dispute and chargeback, and a row of unknown type; one client's
\* withdrawal, another client's deposit and resolve of the first client's
\* transaction, and a row of unknown type.
PipelineFiles ==
    {{Row("deposit", 1, 1, Some(15)), Row("dispute", 1, 1, None),
      Row("chargeback", 1, 1, None), Row(InvalidType, 1, 1, None)},
     {Row("withdrawal", 1, 1, Some(15)), Row("deposit", 2, 2, Some(15)),
      Row("resolve", 2, 1, None), Row(InvalidType, 1, 1, None)}}

\* Two-row vocabularies, for the runs in which scheduling is fair: between
\* them a row of every type.
FairFiles ==
    {{Row("deposit", 1, 1, Some(15)), Row("dispute", 1, 1, None)},
     {Row("withdrawal", 1, 1, Some(15)), Row("resolve", 1, 1, None)},
     {Row("chargeback", 1, 1, None), Row(InvalidType, 1, 1, None)}}

\* Vocabularies for comparing the run with the handling of the rows one at a
\* time: a dispute of a transaction whose deposit may come after it, beside
\* another deposit of the same client; and a withdrawal with its dispute cycle.
RaceFile ==
    {Row("deposit", 1, 2, Some(15)), Row("dispute", 1, 1, None),
     Row("deposit", 1, 1, Some(15))}

SettleFile ==
    {Row("withdrawal", 1, 1, Some(15)), Row("dispute", 1, 1, None),
     Row("resolve", 1, 1, None), Row("chargeback", 1, 1, None)}

SequentialFiles == {RaceFile, SettleFile}

\* Vocabularies for the runs that follow the two mutexes: a deposit with its
\* dispute and chargeback; a withdrawal and a resolve; a deposit and a row of
\* unknown type.
LockFiles ==
    {{Row("deposit", 1, 1, Some(15)), Row("dispute", 1, 1, None),
      Row("chargeback", 1, 1, None)},
     {Row("withdrawal", 1, 1, Some(15)), Row("resolve", 1, 1, None)},
     {Row("deposit", 1, 1, Some(15)), Row(InvalidType, 1, 1, None)}}

VARIABLES
    file,            \* the vocabulary of the input file: a set of rows
    reader,          \* the reader task: "run", "done", "err" (decode error), "panic" (send failed)
    nread,           \* rows the reader has sent
    rx_transactions, \* channel reader -> store_transactions: the number of rows in it
                     \* (a row's fields are drawn when store_transactions receives it)
    rx_transactions2,\* channel store_transactions -> process_transactions
    tx_ledger,       \* HashMap<u32, TransactionRecord>
    client_ledger,   \* HashMap<u16, ClientAccount>
    store,           \* store_transactions: [retry, status]
    process,         \* process_transactions: [retry, status]
    start_writing,   \* AtomicBool
    writer,          \* the writer task: "idle", "done"
    output,          \* what the writer has serialized: a sequence of row sets
    last,            \* the step taken last: << operation, outcome >>, or for a
                     \* row store_transactions received << outcome, the row >>
    guards,          \* who holds the MutexGuard of each ledger: "free", or a task
    hand,            \* the row each stage has received and not yet finished with
    sequential       \* None, or Some of the ledgers that handling the rows one
                     \* at a time, in the order received, would have made

vars == << file, reader, nread, rx_transactions, rx_transactions2, tx_ledger,
           client_ledger, store, process, start_writing, writer, output, last,
           guards, hand, sequential >>

----
\* HashMap helpers: a map is a function whose domain is its key set.

EmptyMap == << >>

\* Mutant of Insert: an entry that is there already is kept.
Insert_or_keep(m, k, v) ==
    [x \in DOMAIN m \cup {k} |-> IF x \in DOMAIN m THEN m[x] ELSE v]

Insert(m, k, v) == [x \in DOMAIN m \cup {k} |-> IF x = k THEN v ELSE m[x]]

----
\* Decimal conversion

unwrap_or(opt, default) == IF opt = None THEN default ELSE opt[1]

\* Decimal::round_dp(4) of a value with 5 fractional digits: banker's rounding.
round_dp(x) ==
    LET q == x \div 10
        r == x % 10
    IN  IF r < 5 THEN q
        ELSE IF r > 5 THEN q + 1
        ELSE IF q % 2 = 0 THEN q ELSE q + 1

\* Decimal::from_f32(amount.unwrap_or(0.0)).unwrap_or(Decimal::new(0, 4)).round_dp(4)
ToDecimal(amount) == round_dp(unwrap_or(amount, 0))

----
\* structs/clients.rs

NewAccount(client) ==
    [client |-> client, available |-> 0, held |-> 0, total |-> 0, locked |-> FALSE]

\* Mutant of update_total: the total is left stale.
update_total_stale(a) == a

update_total(a) == [a EXCEPT !.total = a.available + a.held]

\* Mutant of AccDeposit: the lock is not looked at.
AccDeposit_unguarded(a, amount) ==
    update_total([a EXCEPT !.available = a.available + amount])

AccDeposit(a, amount) ==
    IF ~a.locked
    THEN update_total([a EXCEPT !.available = a.available + amount])
    ELSE a

\* Mutant of AccWithdrawal: the funds are not looked at.
AccWithdrawal_overdraw(a, amount) ==
    IF ~a.locked
    THEN update_total([a EXCEPT !.available = a.available - amount])
    ELSE a

AccWithdrawal(a, amount) ==
    IF ~a.locked /\ a.available - amount >= 0
    THEN update_total([a EXCEPT !.available = a.available - amount])
    ELSE a

\* Mutant of AccDispute: the amount leaves available and is not held.
AccDispute_nohold(a, amount) ==
    IF ~a.locked /\ a.available - amount >= 0
    THEN update_total([a EXCEPT !.available = a.available - amount])
    ELSE a

AccDispute(a, amount) ==
    IF ~a.locked /\ a.available - amount >= 0
    THEN update_total([a EXCEPT !.available = a.available - amount,
                                !.held = a.held + amount])
    ELSE a

\* Mutant of AccResolve: the amount leaves held and is not given back.
AccResolve_nocredit(a, amount) ==
    IF ~a.locked /\ a.held - amount >= 0
    THEN update_total([a EXCEPT !.held = a.held - amount])
    ELSE a

AccResolve(a, amount) ==
    IF ~a.locked /\ a.held - amount >= 0
    THEN update_total([a EXCEPT !.available = a.available + amount,
                                !.held = a.held - amount])
    ELSE a

\* Mutant of AccChargeback: the account is not locked.
AccChargeback_unlocked(a, amount) ==
    IF ~a.locked /\ a.held - amount >= 0
    THEN update_total([a EXCEPT !.held = a.held - amount])
    ELSE a

AccChargeback(a, amount) ==
    IF ~a.locked /\ a.held - amount >= 0
    THEN [update_total([a EXCEPT !.held = a.held - amount]) EXCEPT !.locked = TRUE]
    ELSE a

----
\* structs/transaction.rs

\* Mutant of RecDispute: the flag is flipped.
RecDispute_toggle(r) == [r EXCEPT !.disputed = ~r.disputed]

RecDispute(r) == [r EXCEPT !.disputed = TRUE]

RecResolve(r) == [r EXCEPT !.disputed = FALSE]

RecordFrom(t) ==
    [amount |-> ToDecimal(t.amount), client |-> t.client, disputed |-> FALSE]

----
\* processors/txprocessor.rs: the five actions, as functions of the ledgers.

\* Mutant of deposit: a fresh account is inserted whether or not one exists.
deposit_reinsert(cl, client, amount) ==
    Insert(cl, client, AccDeposit(NewAccount(client), amount))

deposit(cl, client, amount) ==
    IF client \in DOMAIN cl
    THEN [cl EXCEPT ![client] = AccDeposit(cl[client], amount)]
    ELSE Insert(cl, client, AccDeposit(NewAccount(client), amount))

\* Mutant of withdrawal: no account is created for an unknown client.
withdrawal_nocreate(cl, client, amount) ==
    IF client \in DOMAIN cl
    THEN [cl EXCEPT ![client] = AccWithdrawal(cl[client], amount)]
    ELSE cl

withdrawal(cl, client, amount) ==
    IF client \in DOMAIN cl
    THEN [cl EXCEPT ![client] = AccWithdrawal(cl[client], amount)]
    ELSE Insert(cl, client, NewAccount(client))

\* dispute, resolve and chargeback hold the transaction lock throughout and
\* return both ledgers.
Ledgers(cl, tl) == [cl |-> cl, tl |-> tl]

\* Mutant of dispute: the record's owner is not compared with the client.
dispute_any_client(cl, tl, tx_id, client) ==
    IF tx_id \in DOMAIN tl /\ client \in DOMAIN cl
    THEN Ledgers([cl EXCEPT ![client] = AccDispute(cl[client], tl[tx_id].amount)],
                 [tl EXCEPT ![tx_id] = RecDispute(tl[tx_id])])
    ELSE Ledgers(cl, tl)

dispute(cl, tl, tx_id, client) ==
    IF tx_id \in DOMAIN tl /\ tl[tx_id].client = client /\ client \in DOMAIN cl
    THEN Ledgers([cl EXCEPT ![client] = AccDispute(cl[client], tl[tx_id].amount)],
                 [tl EXCEPT ![tx_id] = RecDispute(tl[tx_id])])
    ELSE Ledgers(cl, tl)

resolve(cl, tl, tx_id, client) ==
    IF tx_id \in DOMAIN tl /\ tl[tx_id].disputed /\ tl[tx_id].client = client
       /\ client \in DOMAIN cl
    THEN Ledgers([cl EXCEPT ![client] = AccResolve(cl[client], tl[tx_id].amount)],
                 [tl EXCEPT ![tx_id] = RecResolve(tl[tx_id])])
    ELSE Ledgers(cl, tl)

chargeback(cl, tl, tx_id, client) ==
    IF tx_id \in DOMAIN tl /\ tl[tx_id].disputed /\ tl[tx_id].client = client
       /\ client \in DOMAIN cl
    THEN Ledgers([cl EXCEPT ![client] = AccChargeback(cl[client], tl[tx_id].amount)],
                 [tl EXCEPT ![tx_id] = RecResolve(tl[tx_id])])
    ELSE Ledgers(cl, tl)

----
\* The state main has built when it spawns the tasks, the input file being
\* made of the rows of one of the given vocabularies.
InitOf(files) ==
    /\ file \in files
    /\ reader = "run"
    /\ nread = 0
    /\ rx_transactions = 0
    /\ rx_transactions2 = << >>
    /\ tx_ledger = EmptyMap
    /\ client_ledger = EmptyMap
    /\ store = [retry |-> RetryBudget, status |-> "run"]
    /\ process = [retry |-> RetryBudget, status |-> "run"]
    /\ start_writing = FALSE
    /\ writer = "idle"
    /\ output = << >>
    /\ last = << "init", "init" >>
    /\ guards = [tx_ledger |-> "free", client_ledger |-> "free"]
    /\ hand = [store |-> None, process |-> None]

Init == InitOf(LedgerFiles) /\ sequential = None

InitPipeline == InitOf(PipelineFiles) /\ sequential = None

InitFair == InitOf(FairFiles) /\ sequential = None

InitLocks == InitOf(LockFiles) /\ sequential = None

\* The same, with the one-at-a-time account kept from the start.
InitSequential ==
    InitOf(SequentialFiles) /\ sequential = Some(Ledgers(EmptyMap, EmptyMap))

----
\* A task owns the receiving end of its channel until its function returns or
\* unwinds: senders succeed as long as that end is there.
Open(st) == st.status \in {"run", "stopped"}

----
\* csv/reader.rs: read. One step per row of the file.

\* A row decodes and is sent to store_transactions.
ReadRow ==
    /\ reader = "run" /\ nread < MaxInstr
    /\ Open(store)
    /\ rx_transactions' = rx_transactions + 1
    /\ nread' = nread + 1
    /\ last' = << "read", "sent" >>
    /\ UNCHANGED << guards, hand, sequential, file, reader, rx_transactions2, tx_ledger, client_ledger, store,
                    process, start_writing, writer, output >>

\* A row decodes but the receiver is gone: send(..).unwrap() panics.
ReadSendFail ==
    /\ reader = "run" /\ nread < MaxInstr
    /\ ~Open(store)
    /\ reader' = "panic"
    /\ last' = << "read", "panic" >>
    /\ UNCHANGED << guards, hand, sequential, file, nread, rx_transactions, rx_transactions2, tx_ledger,
                    client_ledger, store, process, start_writing, writer, output >>

\* A row does not decode: CSVReadingError.
ReadError ==
    /\ reader = "run" /\ nread < MaxInstr
    /\ reader' = "err"
    /\ last' = << "read", "err" >>
    /\ UNCHANGED << guards, hand, sequential, file, nread, rx_transactions, rx_transactions2, tx_ledger,
                    client_ledger, store, process, start_writing, writer, output >>

\* The file ends.
ReadEof ==
    /\ reader = "run"
    /\ reader' = "done"
    /\ last' = << "read", "eof" >>
    /\ UNCHANGED << guards, hand, sequential, file, nread, rx_transactions, rx_transactions2, tx_ledger,
                    client_ledger, store, process, start_writing, writer, output >>

----
\* processors/txprocessor.rs: store_transactions. One step per loop iteration.

\* Mutant of Forward: the row goes to the front of the channel.
Forward_front(t) ==
    IF Open(process)
    THEN /\ rx_transactions2' = << t >> \o rx_transactions2
         /\ store' = store
    ELSE /\ rx_transactions2' = rx_transactions2
         /\ store' = [store EXCEPT !.status = "panic"]

\* tx_channel.send(tx_clone).unwrap(): the row is queued while the receiver
\* lives, and the unwrap panics once process_transactions has returned.
Forward(t) ==
    IF Open(process)
    THEN /\ rx_transactions2' = Append(rx_transactions2, t)
         /\ store' = store
    ELSE /\ rx_transactions2' = rx_transactions2
         /\ store' = [store EXCEPT !.status = "panic"]

\* What the two stages do with one row when nothing else happens in between:
\* store_transactions records it if it is a deposit or a withdrawal, then
\* process_transactions applies it.
Sequential(l, t) ==
    LET tl == IF t.tx_type \in RecordableTypes
              THEN Insert(l.tl, t.tx, RecordFrom(t))
              ELSE l.tl
    IN  CASE t.tx_type = "deposit" ->
                Ledgers(deposit(l.cl, t.client, ToDecimal(t.amount)), tl)
          [] t.tx_type = "withdrawal" ->
                Ledgers(withdrawal(l.cl, t.client, ToDecimal(t.amount)), tl)
          [] t.tx_type = "dispute" -> dispute(l.cl, tl, t.tx, t.client)
          [] t.tx_type = "resolve" -> resolve(l.cl, tl, t.tx, t.client)
          [] t.tx_type = "chargeback" -> chargeback(l.cl, tl, t.tx, t.client)

\* The row just received is added to the one-at-a-time account, if one is kept.
Track(t) ==
    sequential' = IF sequential = None
                  THEN None
                  ELSE Some(Sequential(sequential[1], t))

\* store_transactions is at the top of its loop and try_recv returns a row.
StoreReceives ==
    /\ store.status = "run"
    /\ hand.store = None
    /\ rx_transactions > 0

\* Mutant of StoreRecord: the row is forwarded without being recorded.
StoreRecord_unrecorded ==
    /\ StoreReceives
    /\ \E t \in file :
        /\ t.tx_type \in RecordableTypes
        /\ Forward(t)
        /\ Track(t)
        /\ last' = << IF Open(process) THEN "forward" ELSE "abort", t >>
    /\ rx_transactions' = rx_transactions - 1
    /\ UNCHANGED << guards, hand, file, reader, nread, tx_ledger, client_ledger, process,
                    start_writing, writer, output >>

StoreRecord ==
    /\ StoreReceives
    /\ \E t \in file :
        /\ t.tx_type \in RecordableTypes
        /\ tx_ledger' = Insert(tx_ledger, t.tx, RecordFrom(t))
        /\ Forward(t)
        /\ Track(t)
        /\ last' = << IF Open(process) THEN "forward" ELSE "abort", t >>
    /\ rx_transactions' = rx_transactions - 1
    /\ UNCHANGED << guards, hand, file, reader, nread, client_ledger, process, start_writing,
                    writer, output >>

StoreForward ==
    /\ StoreReceives
    /\ \E t \in file :
        /\ t.tx_type \in PassThroughTypes
        /\ Forward(t)
        /\ Track(t)
        /\ last' = << IF Open(process) THEN "forward" ELSE "abort", t >>
    /\ rx_transactions' = rx_transactions - 1
    /\ UNCHANGED << guards, hand, file, reader, nread, tx_ledger, client_ledger, process,
                    start_writing, writer, output >>

\* Mutant of StoreInvalid: the row is dropped and the loop goes on.
StoreInvalid_skips ==
    /\ StoreReceives
    /\ \E t \in file :
        /\ t.tx_type \notin RecordableTypes \cup PassThroughTypes
        /\ last' = << "invalid", t >>
    /\ rx_transactions' = rx_transactions - 1
    /\ UNCHANGED << guards, hand, sequential, file, reader, nread, rx_transactions2, tx_ledger, client_ledger,
                    store, process, start_writing, writer, output >>

StoreInvalid ==
    /\ StoreReceives
    /\ \E t \in file :
        /\ t.tx_type \notin RecordableTypes \cup PassThroughTypes
        /\ last' = << "invalid", t >>
    /\ rx_transactions' = rx_transactions - 1
    /\ store' = [store EXCEPT !.status = "err"]
    /\ UNCHANGED << guards, hand, sequential, file, reader, nread, rx_transactions2, tx_ledger, client_ledger,
                    process, start_writing, writer, output >>

\* Mutant of Poll: the budget is never spent.
Poll_forever(st) == st

\* try_recv found nothing: retry = retry - 1; if retry == 0 { stop = true }
\* The loop is left, but the function has not returned yet.
Poll(st) ==
    IF st.retry - 1 = 0
    THEN [retry |-> 0, status |-> "stopped"]
    ELSE [st EXCEPT !.retry = st.retry - 1]

StoreIdle ==
    /\ store.status = "run"
    /\ hand.store = None
    /\ rx_transactions = 0
    /\ store' = Poll(store)
    /\ last' = << "store", "idle" >>
    /\ UNCHANGED << guards, hand, sequential, file, reader, nread, rx_transactions, rx_transactions2, tx_ledger,
                    client_ledger, process, start_writing, writer, output >>

\* The function returns Ok(()): its receiver is dropped, and with it whatever
\* the channel still holds.
StoreReturn ==
    /\ store.status = "stopped"
    /\ store' = [store EXCEPT !.status = "ok"]
    /\ last' = << "store", "return" >>
    /\ UNCHANGED << guards, hand, sequential, file, reader, nread, rx_transactions, rx_transactions2, tx_ledger,
                    client_ledger, process, start_writing, writer, output >>

----
\* processors/txprocessor.rs: process_transactions. One step per loop iteration.

\* process_transactions is at the top of its loop and try_recv returns a row.
ProcessReceives ==
    /\ process.status = "run"
    /\ hand.process = None
    /\ rx_transactions2 # << >>

\* The branch an account method takes, for the step label.
Guarded(a, ok) ==
    IF a.locked THEN "locked" ELSE IF ok THEN "applied" ELSE "insufficient"

AvailableCovers(a, amount) == a.available - amount >= 0
HeldCovers(a, amount) == a.held - amount >= 0

\* The branch a dispute (settles = FALSE) or a resolve or chargeback
\* (settles = TRUE) takes, for the step label.
Referenced(t, settles) ==
    IF t.tx \notin DOMAIN tx_ledger THEN "norecord"
    ELSE IF settles /\ ~tx_ledger[t.tx].disputed THEN "undisputed"
    ELSE IF tx_ledger[t.tx].client # t.client THEN "mismatch"
    ELSE IF t.client \notin DOMAIN client_ledger THEN "noaccount"
    ELSE LET a == client_ledger[t.client]
             amount == tx_ledger[t.tx].amount
         IN  Guarded(a, IF settles THEN HeldCovers(a, amount)
                                   ELSE AvailableCovers(a, amount))

ProcessDeposit ==
    /\ ProcessReceives
    /\ LET t == Head(rx_transactions2) IN
        /\ t.tx_type = "deposit"
        /\ client_ledger' = deposit(client_ledger, t.client, ToDecimal(t.amount))
        /\ last' = << "deposit",
                      IF t.client \notin DOMAIN client_ledger THEN "created"
                      ELSE Guarded(client_ledger[t.client], TRUE) >>
    /\ rx_transactions2' = Tail(rx_transactions2)
    /\ UNCHANGED << guards, hand, sequential, file, reader, nread, rx_transactions, tx_ledger, store, process,
                    start_writing, writer, output >>

\* Mutant of ProcessWithdrawal: a withdrawal the account refuses is an error,
\* and the unwrap ends the task.
ProcessWithdrawal_strict ==
    /\ ProcessReceives
    /\ LET t == Head(rx_transactions2)
           refused == /\ t.client \in DOMAIN client_ledger
                      /\ \/ client_ledger[t.client].locked
                         \/ ~AvailableCovers(client_ledger[t.client], ToDecimal(t.amount))
       IN
        /\ t.tx_type = "withdrawal"
        /\ client_ledger' = withdrawal(client_ledger, t.client, ToDecimal(t.amount))
        /\ process' = IF refused THEN [process EXCEPT !.status = "panic"] ELSE process
        /\ last' = << "withdrawal", IF refused THEN "panic" ELSE "applied" >>
    /\ rx_transactions2' = Tail(rx_transactions2)
    /\ UNCHANGED << guards, hand, sequential, file, reader, nread, rx_transactions, tx_ledger, store,
                    start_writing, writer, output >>

ProcessWithdrawal ==
    /\ ProcessReceives
    /\ LET t == Head(rx_transactions2) IN
        /\ t.tx_type = "withdrawal"
        /\ client_ledger' = withdrawal(client_ledger, t.client, ToDecimal(t.amount))
        /\ last' = << "withdrawal",
                      IF t.client \notin DOMAIN client_ledger THEN "created"
                      ELSE Guarded(client_ledger[t.client],
                                   AvailableCovers(client_ledger[t.client],
                                                   ToDecimal(t.amount))) >>
    /\ rx_transactions2' = Tail(rx_transactions2)
    /\ UNCHANGED << guards, hand, sequential, file, reader, nread, rx_transactions, tx_ledger, store, process,
                    start_writing, writer, output >>

ProcessDispute ==
    /\ ProcessReceives
    /\ LET t == Head(rx_transactions2)
           r == dispute(client_ledger, tx_ledger, t.tx, t.client)
       IN
        /\ t.tx_type = "dispute"
        /\ client_ledger' = r.cl
        /\ tx_ledger' = r.tl
        /\ last' = << "dispute", Referenced(t, FALSE) >>
    /\ rx_transactions2' = Tail(rx_transactions2)
    /\ UNCHANGED << guards, hand, sequential, file, reader, nread, rx_transactions, store, process, start_writing,
                    writer, output >>

ProcessResolve ==
    /\ ProcessReceives
    /\ LET t == Head(rx_transactions2)
           r == resolve(client_ledger, tx_ledger, t.tx, t.client)
       IN
        /\ t.tx_type = "resolve"
        /\ client_ledger' = r.cl
        /\ tx_ledger' = r.tl
        /\ last' = << "resolve", Referenced(t, TRUE) >>
    /\ rx_transactions2' = Tail(rx_transactions2)
    /\ UNCHANGED << guards, hand, sequential, file, reader, nread, rx_transactions, store, process, start_writing,
                    writer, output >>

ProcessChargeback ==
    /\ ProcessReceives
    /\ LET t == Head(rx_transactions2)
           r == chargeback(client_ledger, tx_ledger, t.tx, t.client)
       IN
        /\ t.tx_type = "chargeback"
        /\ client_ledger' = r.cl
        /\ tx_ledger' = r.tl
        /\ last' = << "chargeback", Referenced(t, TRUE) >>
    /\ rx_transactions2' = Tail(rx_transactions2)
    /\ UNCHANGED << guards, hand, sequential, file, reader, nread, rx_transactions, store, process, start_writing,
                    writer, output >>

\* Mutant of ProcessIdle: the flag is set at the first empty poll.
ProcessIdle_early ==
    /\ process.status = "run"
    /\ hand.process = None
    /\ rx_transactions2 = << >>
    /\ process' = Poll(process)
    /\ start_writing' = TRUE
    /\ last' = << "process", "idle" >>
    /\ UNCHANGED << guards, hand, sequential, file, reader, nread, rx_transactions, rx_transactions2, tx_ledger,
                    client_ledger, store, writer, output >>

\* try_recv found nothing; once the budget is spent the loop ends.
ProcessIdle ==
    /\ process.status = "run"
    /\ hand.process = None
    /\ rx_transactions2 = << >>
    /\ process' = Poll(process)
    /\ last' = << "process", "idle" >>
    /\ UNCHANGED << guards, hand, sequential, file, reader, nread, rx_transactions, rx_transactions2, tx_ledger,
                    client_ledger, store, start_writing, writer, output >>

\* After the loop: start_writing.store(true), then the function returns Ok(())
\* and its receiver is dropped.
ProcessReturn ==
    /\ process.status = "stopped"
    /\ process' = [process EXCEPT !.status = "ok"]
    /\ start_writing' = TRUE
    /\ last' = << "process", "return" >>
    /\ UNCHANGED << guards, hand, sequential, file, reader, nread, rx_transactions, rx_transactions2, tx_ledger,
                    client_ledger, store, writer, output >>

----
\* main.rs and csv/writer.rs: after join_all, every task's result is unwrapped
\* (a failed task ends main there); then the writer runs once.

Rows(cl) == {cl[c] : c \in DOMAIN cl}

Write ==
    /\ reader = "done" /\ store.status = "ok" /\ process.status = "ok"
    /\ writer = "idle"
    /\ writer' = "done"
    /\ output' = IF start_writing THEN Append(output, Rows(client_ledger)) ELSE output
    /\ last' = << "write", "done" >>
    /\ UNCHANGED << guards, hand, sequential, file, reader, nread, rx_transactions, rx_transactions2, tx_ledger,
                    client_ledger, store, process, start_writing >>

----
\* The same tasks, one step per lock operation.  A MutexGuard lives to the end
\* of the statement or block that made it; lock() waits until the mutex is free.

Rest == << file, reader, nread, rx_transactions, rx_transactions2, tx_ledger,
           client_ledger, store, process, start_writing, writer, output,
           sequential >>

\* store_transactions: try_recv returns a deposit or a withdrawal.
StoreTake ==
    /\ StoreReceives
    /\ \E t \in file :
        /\ t.tx_type \in RecordableTypes
        /\ hand' = [hand EXCEPT !.store = Some(t)]
    /\ rx_transactions' = rx_transactions - 1
    /\ last' = << "store", "take" >>
    /\ UNCHANGED << guards, sequential, file, reader, nread, rx_transactions2,
                    tx_ledger, client_ledger, store, process, start_writing,
                    writer, output >>

\* tx_ledger.lock().unwrap()
StoreLock ==
    /\ hand.store # None
    /\ guards.tx_ledger = "free"
    /\ guards' = [guards EXCEPT !.tx_ledger = "store"]
    /\ last' = << "store", "lock" >>
    /\ UNCHANGED << hand, Rest >>

\* .insert(..), the guard is dropped, then tx_channel.send(tx_clone).unwrap()
StoreInsert ==
    /\ guards.tx_ledger = "store"
    /\ LET t == hand.store[1] IN
        /\ tx_ledger' = Insert(tx_ledger, t.tx, RecordFrom(t))
        /\ Forward(t)
        /\ last' = << IF Open(process) THEN "forward" ELSE "abort", t >>
    /\ guards' = [guards EXCEPT !.tx_ledger = "free"]
    /\ hand' = [hand EXCEPT !.store = None]
    /\ UNCHANGED << sequential, file, reader, nread, rx_transactions, client_ledger,
                    process, start_writing, writer, output >>

\* process_transactions: try_recv returns a row.
ProcessTake ==
    /\ ProcessReceives
    /\ hand' = [hand EXCEPT !.process = Some(Head(rx_transactions2))]
    /\ rx_transactions2' = Tail(rx_transactions2)
    /\ last' = << "process", "take" >>
    /\ UNCHANGED << guards, sequential, file, reader, nread, rx_transactions,
                    tx_ledger, client_ledger, store, process, start_writing,
                    writer, output >>

\* process_transactions is handling a row of one of the given types.
InHand(types) ==
    /\ hand.process # None
    /\ hand.process[1].tx_type \in types

\* Mutant of ProcessLockClient: every action starts with the client lock.
ProcessLockClient_first ==
    /\ InHand(RecordableTypes \cup PassThroughTypes)
    /\ guards.tx_ledger # "process"
    /\ guards.client_ledger = "free"
    /\ guards' = [guards EXCEPT !.client_ledger = "process"]
    /\ last' = << "process", "lock" >>
    /\ UNCHANGED << hand, Rest >>

\* deposit, withdrawal: let mut cl = client_ledger.lock().unwrap();
ProcessLockClient ==
    /\ InHand(RecordableTypes)
    /\ guards.client_ledger = "free"
    /\ guards' = [guards EXCEPT !.client_ledger = "process"]
    /\ last' = << "process", "lock" >>
    /\ UNCHANGED << hand, Rest >>

\* deposit, withdrawal: the account is updated or created and cl is dropped.
ProcessApplyClient ==
    /\ InHand(RecordableTypes)
    /\ guards.client_ledger = "process"
    /\ LET t == hand.process[1] IN
        client_ledger' =
            IF t.tx_type = "deposit"
            THEN deposit(client_ledger, t.client, ToDecimal(t.amount))
            ELSE withdrawal(client_ledger, t.client, ToDecimal(t.amount))
    /\ guards' = [guards EXCEPT !.client_ledger = "free"]
    /\ hand' = [hand EXCEPT !.process = None]
    /\ last' = << "process", "apply" >>
    /\ UNCHANGED << sequential, file, reader, nread, rx_transactions,
                    rx_transactions2, tx_ledger, store, process, start_writing,
                    writer, output >>

\* dispute, resolve, chargeback: tx_ledger.lock().unwrap()
ProcessLockTx ==
    /\ InHand(PassThroughTypes)
    /\ guards.tx_ledger = "free"
    /\ guards' = [guards EXCEPT !.tx_ledger = "process"]
    /\ last' = << "process", "lock" >>
    /\ UNCHANGED << hand, Rest >>

\* The tests made under the transaction lock: the record is there, it is
\* disputed (resolve, chargeback), and it is the client's.
Found(t) ==
    /\ t.tx \in DOMAIN tx_ledger
    /\ t.tx_type # "dispute" => tx_ledger[t.tx].disputed
    /\ tx_ledger[t.tx].client = t.client

\* dispute, resolve, chargeback: a test fails; the guard is dropped.
ProcessSkip ==
    /\ InHand(PassThroughTypes)
    /\ guards.tx_ledger = "process"
    /\ ~Found(hand.process[1])
    /\ guards' = [guards EXCEPT !.tx_ledger = "free"]
    /\ hand' = [hand EXCEPT !.process = None]
    /\ last' = << "process", "skip" >>
    /\ UNCHANGED Rest

\* dispute, resolve, chargeback: let mut cl = client_ledger.lock().unwrap();
ProcessLockBoth ==
    /\ InHand(PassThroughTypes)
    /\ guards.tx_ledger = "process"
    /\ Found(hand.process[1])
    /\ guards.client_ledger = "free"
    /\ guards' = [guards EXCEPT !.client_ledger = "process"]
    /\ last' = << "process", "lock" >>
    /\ UNCHANGED << hand, Rest >>

\* dispute, resolve, chargeback: the account and the record are updated if
\* the account is there; cl is dropped, then the transaction guard.
ProcessApplyBoth ==
    /\ InHand(PassThroughTypes)
    /\ guards.tx_ledger = "process"
    /\ guards.client_ledger = "process"
    /\ LET t == hand.process[1]
           r == CASE t.tx_type = "dispute" ->
                        dispute(client_ledger, tx_ledger, t.tx, t.client)
                  [] t.tx_type = "resolve" ->
                        resolve(client_ledger, tx_ledger, t.tx, t.client)
                  [] t.tx_type = "chargeback" ->
                        chargeback(client_ledger, tx_ledger, t.tx, t.client)
       IN
        /\ client_ledger' = r.cl
        /\ tx_ledger' = r.tl
    /\ guards' = [tx_ledger |-> "free", client_ledger |-> "free"]
    /\ hand' = [hand EXCEPT !.process = None]
    /\ last' = << "process", "apply" >>
    /\ UNCHANGED << sequential, file, reader, nread, rx_transactions,
                    rx_transactions2, store, process, start_writing, writer,
                    output >>

\* main runs the writer once the three tasks have returned Ok.
WriterRuns ==
    /\ reader = "done" /\ store.status = "ok" /\ process.status = "ok"
    /\ writer = "idle"

\* write: the loop is entered if start_writing is set, and
\* clients_ledger.lock().unwrap() is reached; otherwise write returns.
WriteLock ==
    /\ WriterRuns
    /\ IF start_writing
       THEN /\ guards.client_ledger = "free"
            /\ guards' = [guards EXCEPT !.client_ledger = "writer"]
            /\ writer' = writer
       ELSE /\ guards' = guards
            /\ writer' = "done"
    /\ last' = << "write", "lock" >>
    /\ UNCHANGED << hand, sequential, file, reader, nread, rx_transactions,
                    rx_transactions2, tx_ledger, client_ledger, store, process,
                    start_writing, output >>

\* write: every account is serialized, the guard is dropped, stop = true.
WriteDone ==
    /\ guards.client_ledger = "writer"
    /\ writer' = "done"
    /\ output' = Append(output, Rows(client_ledger))
    /\ guards' = [guards EXCEPT !.client_ledger = "free"]
    /\ last' = << "write", "done" >>
    /\ UNCHANGED << hand, sequential, file, reader, nread, rx_transactions,
                    rx_transactions2, tx_ledger, client_ledger, store, process,
                    start_writing >>

----
Next ==
    \/ ReadRow \/ ReadSendFail \/ ReadError \/ ReadEof
    \/ StoreRecord \/ StoreForward \/ StoreInvalid \/ StoreIdle \/ StoreReturn
    \/ ProcessDeposit \/ ProcessWithdrawal \/ ProcessDispute
    \/ ProcessResolve \/ ProcessChargeback \/ ProcessIdle \/ ProcessReturn
    \/ Write

Spec == Init /\ [][Next]_vars

\* The tasks while all of them run: the steps of Next without those that end a
\* task (idle polls, an invalid type, a failed read, the end of the file, the
\* writer).  Those steps change neither ledger, and a task that has ended takes
\* no further step, so every change Spec makes to tx_ledger or client_ledger is
\* one SpecRunning makes from the same ledgers and the same instruction.
NextRunning ==
    \/ ReadRow
    \/ StoreRecord \/ StoreForward
    \/ ProcessDeposit \/ ProcessWithdrawal \/ ProcessDispute
    \/ ProcessResolve \/ ProcessChargeback

SpecRunning == Init /\ [][NextRunning]_vars

\* The running tasks, with the one-at-a-time account kept beside the ledgers.
SpecSequential == InitSequential /\ [][NextRunning]_vars

\* The whole pipeline over the smaller files.
SpecPipeline == InitPipeline /\ [][Next]_vars

\* The steps of each of the two spawned stages.
StoreStep ==
    StoreRecord \/ StoreForward \/ StoreInvalid \/ StoreIdle \/ StoreReturn

ProcessStep ==
    \/ ProcessDeposit \/ ProcessWithdrawal \/ ProcessDispute
    \/ ProcessResolve \/ ProcessChargeback \/ ProcessIdle \/ ProcessReturn

\* The whole pipeline over the two-row files under a fair scheduler.  main spawns each stage as a
\* task of its own whose loop never waits for another task (try_recv and send
\* do not block): once spawned, a stage that can take a step is given the
\* processor again and again until its function ends.  Nothing is assumed of
\* the reader.
SpecFair ==
    InitFair /\ [][Next]_vars /\ WF_vars(StoreStep) /\ WF_vars(ProcessStep)

\* The steps process_transactions takes with a row in hand.
ProcessStepLocked ==
    \/ ProcessLockClient \/ ProcessApplyClient
    \/ ProcessLockTx \/ ProcessSkip \/ ProcessLockBoth \/ ProcessApplyBoth

\* The whole pipeline, one step per lock operation.
NextLocks ==
    \/ ReadRow \/ ReadSendFail \/ ReadError \/ ReadEof
    \/ StoreTake \/ StoreLock \/ StoreInsert
    \/ StoreForward \/ StoreInvalid \/ StoreIdle \/ StoreReturn
    \/ ProcessTake \/ ProcessLockClient \/ ProcessApplyClient
    \/ ProcessLockTx \/ ProcessSkip \/ ProcessLockBoth \/ ProcessApplyBoth
    \/ ProcessIdle \/ ProcessReturn
    \/ WriteLock \/ WriteDone

SpecLocks == InitLocks /\ [][NextLocks]_vars

----
\* Vocabulary of the properties.

\* This step is process_transactions handling the instruction at the head of
\* its channel, and that instruction has the given type.
Handles(type) ==
    /\ rx_transactions2 # << >>
    /\ Head(rx_transactions2).tx_type = type
    /\ rx_transactions2' = Tail(rx_transactions2)

\* The instruction being handled names a record of the transaction ledger that
\* belongs to the instruction's client, whose account exists.
OwnRecord(t) ==
    /\ t.tx \in DOMAIN tx_ledger
    /\ tx_ledger[t.tx].client = t.client
    /\ t.client \in DOMAIN client_ledger

\* Every account but c's is as it was, and no account appeared or disappeared.
OtherAccountsUnchanged(c) ==
    /\ DOMAIN client_ledger' = DOMAIN client_ledger
    /\ \A d \in DOMAIN client_ledger \ {c} : client_ledger'[d] = client_ledger[d]

ZeroAccount(c) ==
    [client |-> c, available |-> 0, held |-> 0, total |-> 0, locked |-> FALSE]

\* This step is store_transactions receiving a row; the row is last'[2].
Receives == rx_transactions' = rx_transactions - 1

ValidTypes == {"deposit", "withdrawal", "dispute", "resolve", "chargeback"}

\* r, in units of 10^-4, is x, in units of 10^-5, rounded to the nearest unit.
IsRounded(x, r) == 10 * r - 5 <= x /\ x <= 10 * r + 5

\* The row breaks a business rule in the ledgers as they are: the account is
\* locked or lacks the funds, or the transaction is unknown or another client's.
Violates(t) ==
    LET known == t.client \in DOMAIN client_ledger
        a == client_ledger[t.client]
    IN  \/ t.tx_type = "deposit" /\ known /\ a.locked
        \/ /\ t.tx_type = "withdrawal" /\ known
           /\ a.locked \/ a.available - ToDecimal(t.amount) < 0
        \/ /\ t.tx_type \in PassThroughTypes
           /\ \/ t.tx \notin DOMAIN tx_ledger
              \/ tx_ledger[t.tx].client # t.client
              \/ /\ known
                 /\ \/ a.locked
                    \/ t.tx_type = "dispute" /\ a.available - tx_ledger[t.tx].amount < 0
                    \/ t.tx_type # "dispute" /\ a.held - tx_ledger[t.tx].amount < 0

\* process_transactions handling the row at the head of its channel.
ProcessHandles ==
    \/ ProcessDeposit \/ ProcessWithdrawal \/ ProcessDispute
    \/ ProcessResolve \/ ProcessChargeback

\* This step is process_transactions taking the row at the head of its channel.
Takes ==
    /\ ~Receives
    /\ process.status = "run"
    /\ rx_transactions2 # << >>
    /\ rx_transactions2' = Tail(rx_transactions2)

----
\* C1: in every reachable state every account of the client ledger has
\* total = available + held.
C1_TotalIsSum ==
    \A c \in DOMAIN client_ledger :
        client_ledger[c].total = client_ledger[c].available + client_ledger[c].held

\* C1 witness: an account with money both available and held.
C1_Witness ==
    \E c \in DOMAIN client_ledger :
        /\ client_ledger[c].available > 0
        /\ client_ledger[c].held > 0

\* C2: in every reachable state every account has available >= 0 and held >= 0.
\* Stated as the claim has it; the code accepts a negative amount.
C2_NonNegative ==
    \A c \in DOMAIN client_ledger :
        client_ledger[c].available >= 0 /\ client_ledger[c].held >= 0

\* C3: an account that is locked is still there and still locked after any step.
C3_LockMonotonic ==
    [][\A c \in DOMAIN client_ledger :
          client_ledger[c].locked
              => c \in DOMAIN client_ledger' /\ client_ledger'[c].locked]_vars

\* C3 witness: a dispute has been handled against an account locked earlier.
C3_Witness ==
    /\ last = << "dispute", "locked" >>
    /\ \E c \in DOMAIN client_ledger : client_ledger[c].locked

\* C4: a dispute of the client's own record whose account guard fails (account
\* locked, or available - amount < 0) changes neither ledger: the record is not
\* marked disputed.  Stated as the claim has it; the code marks the record.
C4_FailedDisputeIsNoOp ==
    [][(/\ Handles("dispute")
        /\ OwnRecord(Head(rx_transactions2))
        /\ LET t == Head(rx_transactions2)
               a == client_ledger[t.client]
           IN  a.locked \/ a.available - tx_ledger[t.tx].amount < 0)
       => /\ client_ledger' = client_ledger
          /\ tx_ledger' = tx_ledger]_vars

\* C5: a resolve or chargeback of the client's own disputed record whose account
\* guard fails (account locked, or held - amount < 0) changes neither ledger: the
\* record stays disputed.  Stated as the claim has it; the code clears the flag.
C5_FailedSettleIsNoOp ==
    [][(/\ Handles("resolve") \/ Handles("chargeback")
        /\ OwnRecord(Head(rx_transactions2))
        /\ LET t == Head(rx_transactions2)
               a == client_ledger[t.client]
           IN  /\ tx_ledger[t.tx].disputed
               /\ a.locked \/ a.held - tx_ledger[t.tx].amount < 0)
       => /\ client_ledger' = client_ledger
          /\ tx_ledger' = tx_ledger]_vars

\* C6: a dispute, resolve or chargeback naming a transaction id without a record,
\* or a record of another client, changes neither ledger and does not fail.
C6_ReferentialIntegrity ==
    [][(/\ \E type \in PassThroughTypes : Handles(type)
        /\ LET t == Head(rx_transactions2)
           IN  \/ t.tx \notin DOMAIN tx_ledger
               \/ tx_ledger[t.tx].client # t.client)
       => /\ client_ledger' = client_ledger
          /\ tx_ledger' = tx_ledger
          /\ process' = process]_vars

\* C6 witness: a dispute named the record of another client while both clients
\* had an account.
C6_Witness ==
    /\ last = << "dispute", "mismatch" >>
    /\ DOMAIN client_ledger = Clients

\* C7: no step changes an account that is locked.
C7_LockedIsFrozen ==
    [][\A c \in DOMAIN client_ledger :
          client_ledger[c].locked
              => c \in DOMAIN client_ledger' /\ client_ledger'[c] = client_ledger[c]]_vars

\* C7 witness: a deposit has been handled against a locked account.
C7_Witness ==
    /\ last = << "deposit", "locked" >>
    /\ \E c \in DOMAIN client_ledger : client_ledger[c].locked

\* C8: a withdrawal takes the amount off available and total only when the
\* account exists, is not locked and available - amount >= 0; otherwise no
\* balance changes, and an absent account is created with zero balances,
\* unlocked, the withdrawal ignored.
C8_Withdrawal ==
    [][Handles("withdrawal")
       => LET t == Head(rx_transactions2)
              c == t.client
              amount == ToDecimal(t.amount)
          IN  /\ tx_ledger' = tx_ledger
              /\ IF c \notin DOMAIN client_ledger
                 THEN /\ DOMAIN client_ledger' = DOMAIN client_ledger \cup {c}
                      /\ client_ledger'[c] = ZeroAccount(c)
                      /\ \A d \in DOMAIN client_ledger :
                             client_ledger'[d] = client_ledger[d]
                 ELSE IF /\ ~client_ledger[c].locked
                         /\ client_ledger[c].available - amount >= 0
                 THEN /\ OtherAccountsUnchanged(c)
                      /\ client_ledger'[c].available = client_ledger[c].available - amount
                      /\ client_ledger'[c].total = client_ledger[c].total - amount
                      /\ client_ledger'[c].held = client_ledger[c].held
                      /\ client_ledger'[c].locked = client_ledger[c].locked
                 ELSE client_ledger' = client_ledger]_vars

\* C8 witness: deposit then withdrawal of the same positive amount, the only two
\* rows read, have left the account at zero.
C8_Witness ==
    /\ last = << "withdrawal", "applied" >>
    /\ nread = 2
    /\ \E x \in DOMAIN tx_ledger : tx_ledger[x].amount > 0
    /\ \E c \in DOMAIN client_ledger : client_ledger[c].available = 0

\* C9: a dispute of the client's own record, the account unlocked and
\* available - amount >= 0, moves the record's amount from available to held,
\* leaves total and locked as they were and marks the record disputed.
C9_Dispute ==
    [][(/\ Handles("dispute")
        /\ OwnRecord(Head(rx_transactions2))
        /\ LET t == Head(rx_transactions2)
               a == client_ledger[t.client]
           IN  ~a.locked /\ a.available - tx_ledger[t.tx].amount >= 0)
       => LET t == Head(rx_transactions2)
              c == t.client
              amount == tx_ledger[t.tx].amount
          IN  /\ OtherAccountsUnchanged(c)
              /\ client_ledger'[c].available = client_ledger[c].available - amount
              /\ client_ledger'[c].held = client_ledger[c].held + amount
              /\ client_ledger'[c].total = client_ledger[c].total
              /\ client_ledger'[c].locked = client_ledger[c].locked
              /\ tx_ledger' = [tx_ledger EXCEPT ![t.tx].disputed = TRUE]]_vars

\* C9 witness: a deposit has been disputed: its amount is held, nothing is
\* available and the record is marked.
C9_Witness ==
    /\ last = << "dispute", "applied" >>
    /\ \E x \in DOMAIN tx_ledger :
        /\ tx_ledger[x].disputed
        /\ tx_ledger[x].amount > 0
        /\ LET a == client_ledger[tx_ledger[x].client]
           IN  a.available = 0 /\ a.held = tx_ledger[x].amount /\ a.total = a.held

\* C10: a chargeback of the client's own disputed record, the account unlocked
\* and held - amount >= 0, takes the amount off held and total, leaves available
\* as it was, locks the account and clears the record's disputed flag.
C10_Chargeback ==
    [][(/\ Handles("chargeback")
        /\ OwnRecord(Head(rx_transactions2))
        /\ LET t == Head(rx_transactions2)
               a == client_ledger[t.client]
           IN  /\ tx_ledger[t.tx].disputed
               /\ ~a.locked /\ a.held - tx_ledger[t.tx].amount >= 0)
       => LET t == Head(rx_transactions2)
              c == t.client
              amount == tx_ledger[t.tx].amount
          IN  /\ OtherAccountsUnchanged(c)
              /\ client_ledger'[c].held = client_ledger[c].held - amount
              /\ client_ledger'[c].total = client_ledger[c].total - amount
              /\ client_ledger'[c].available = client_ledger[c].available
              /\ client_ledger'[c].locked = TRUE
              /\ tx_ledger' = [tx_ledger EXCEPT ![t.tx].disputed = FALSE]]_vars

\* C10 witness: a disputed deposit has been charged back: the account is locked
\* with nothing held and nothing available, the record no longer disputed.
C10_Witness ==
    /\ last = << "chargeback", "applied" >>
    /\ \E x \in DOMAIN tx_ledger :
        /\ ~tx_ledger[x].disputed
        /\ tx_ledger[x].amount > 0
        /\ LET a == client_ledger[tx_ledger[x].client]
           IN  a.locked /\ a.available = 0 /\ a.held = 0 /\ a.total = 0

\* C11: a resolve of the client's own disputed record, the account unlocked and
\* held - amount >= 0, moves the record's amount from held to available, leaves
\* total and locked as they were and clears the record's disputed flag; a
\* resolve of a record that is not disputed changes neither ledger.
C11_Resolve ==
    [][Handles("resolve")
       => LET t == Head(rx_transactions2)
              c == t.client
              amount == tx_ledger[t.tx].amount
          IN  /\ (/\ OwnRecord(t)
                  /\ tx_ledger[t.tx].disputed
                  /\ ~client_ledger[c].locked
                  /\ client_ledger[c].held - amount >= 0)
                 => /\ OtherAccountsUnchanged(c)
                    /\ client_ledger'[c].available = client_ledger[c].available + amount
                    /\ client_ledger'[c].held = client_ledger[c].held - amount
                    /\ client_ledger'[c].total = client_ledger[c].total
                    /\ client_ledger'[c].locked = client_ledger[c].locked
                    /\ tx_ledger' = [tx_ledger EXCEPT ![t.tx].disputed = FALSE]
              /\ (t.tx \in DOMAIN tx_ledger /\ ~tx_ledger[t.tx].disputed)
                 => /\ client_ledger' = client_ledger
                    /\ tx_ledger' = tx_ledger]_vars

\* C11 witness: a disputed deposit has been resolved: its amount is available
\* again, nothing is held and the record is no longer disputed.
C11_Witness ==
    /\ last = << "resolve", "applied" >>
    /\ \E x \in DOMAIN tx_ledger :
        /\ ~tx_ledger[x].disputed
        /\ tx_ledger[x].amount > 0
        /\ LET a == client_ledger[tx_ledger[x].client]
           IN  ~a.locked /\ a.available = tx_ledger[x].amount /\ a.held = 0

\* C12: once a chargeback has locked the client's account, handling a
\* chargeback of that client again changes neither ledger.  Every chargeback
\* row of a file names transaction id 1, so the account of the row's client
\* being locked means that this same chargeback has succeeded before.
\* Stated as the claim has it; after a dispute in between, the code clears
\* the record's flag again.
C12_ChargebackIdempotent ==
    [][(/\ Handles("chargeback")
        /\ LET t == Head(rx_transactions2)
           IN  /\ t.client \in DOMAIN client_ledger
               /\ client_ledger[t.client].locked)
       => /\ client_ledger' = client_ledger
          /\ tx_ledger' = tx_ledger]_vars

\* C13: when store_transactions receives a deposit or withdrawal, the
\* transaction ledger afterwards maps the row's transaction id to the row's
\* amount (rounded to 4 fractional digits, 0 if absent), the row's client and
\* disputed = FALSE, whatever it held for that id before, and every other
\* entry is as it was; when it receives a dispute, resolve or chargeback the
\* transaction ledger is as it was; the client ledger is as it was either way.
C13_RecorderEffects ==
    [][Receives
       => LET t == last'[2]
          IN  /\ client_ledger' = client_ledger
              /\ IF t.tx_type \in RecordableTypes
                 THEN /\ DOMAIN tx_ledger' = DOMAIN tx_ledger \cup {t.tx}
                      /\ tx_ledger'[t.tx].client = t.client
                      /\ tx_ledger'[t.tx].disputed = FALSE
                      /\ IF t.amount = None
                         THEN tx_ledger'[t.tx].amount = 0
                         ELSE IsRounded(t.amount[1], tx_ledger'[t.tx].amount)
                      /\ \A x \in DOMAIN tx_ledger \ {t.tx} :
                             tx_ledger'[x] = tx_ledger[x]
                 ELSE tx_ledger' = tx_ledger]_vars

\* C13 witness: a deposit without an amount has just replaced the record of a
\* deposit that was disputed (its amount is still held), the record of the
\* other transaction id being there too.
C13_Witness ==
    /\ last[1] = "forward"
    /\ last[2].tx_type \in RecordableTypes
    /\ last[2].amount = None
    /\ DOMAIN tx_ledger = TxIds
    /\ tx_ledger[last[2].tx].amount = 0
    /\ \E c \in DOMAIN client_ledger : client_ledger[c].held > 0

\* C14, as the claim has it: store_transactions appends every row of a valid
\* type it receives to the channel to process_transactions, unchanged and at
\* the tail; it appends nothing else, and process_transactions takes rows from
\* the head only.
C14_ForwardsEveryValidRow ==
    [][/\ (Receives /\ last'[2].tx_type \in ValidTypes)
          => rx_transactions2' = Append(rx_transactions2, last'[2])
       /\ (Receives /\ last'[2].tx_type \notin ValidTypes)
          => rx_transactions2' = rx_transactions2
       /\ ~Receives => (rx_transactions2' = rx_transactions2 \/ Takes)]_vars

\* C14, amended: store_transactions appends every row of a valid type it
\* receives before process_transactions has returned to the channel,
\* unchanged and at the tail; a row of a valid type received after
\* process_transactions has returned is not forwarded and store_transactions
\* stops there; it appends nothing else, and process_transactions takes rows
\* from the head only.
C14_ForwardsInOrder ==
    [][/\ (Receives /\ last'[2].tx_type \in ValidTypes /\ Open(process))
          => /\ rx_transactions2' = Append(rx_transactions2, last'[2])
             /\ store' = store
       /\ (Receives /\ last'[2].tx_type \in ValidTypes /\ ~Open(process))
          => /\ rx_transactions2' = rx_transactions2
             /\ store'.status = "panic"
       /\ (Receives /\ last'[2].tx_type \notin ValidTypes)
          => rx_transactions2' = rx_transactions2
       /\ ~Receives => (rx_transactions2' = rx_transactions2 \/ Takes)]_vars

\* C14 witness: a row has just been forwarded behind a different row that
\* process_transactions has not taken yet.
C14_Witness ==
    /\ last[1] = "forward"
    /\ Len(rx_transactions2) >= 2
    /\ rx_transactions2[Len(rx_transactions2)] = last[2]
    /\ rx_transactions2[1] # last[2]

\* C15, as the claim has it: after process_transactions handles a row of any
\* of the five types whose client has no account, the client has one: the
\* zero account with the row's own effect applied (a deposit's amount is
\* available; the other four find nothing to take or move).
C15_AnyOperationCreates ==
    [][\A type \in ValidTypes :
          (Handles(type) /\ Head(rx_transactions2).client \notin DOMAIN client_ledger)
          => LET t == Head(rx_transactions2)
                 c == t.client
             IN  /\ DOMAIN client_ledger' = DOMAIN client_ledger \cup {c}
                 /\ client_ledger'[c] =
                        IF type = "deposit"
                        THEN [ZeroAccount(c) EXCEPT !.available = ToDecimal(t.amount),
                                                    !.total = ToDecimal(t.amount)]
                        ELSE ZeroAccount(c)]_vars

\* C15, amended: after process_transactions handles a deposit or a withdrawal
\* whose client has no account, the client has one, created with zero balances
\* and unlocked: the deposit's amount is then available, the withdrawal is not
\* applied.  A dispute, resolve or chargeback whose client has no account
\* creates none and changes neither ledger.
C15_DepositOrWithdrawalCreates ==
    [][\A type \in ValidTypes :
          (Handles(type) /\ Head(rx_transactions2).client \notin DOMAIN client_ledger)
          => LET t == Head(rx_transactions2)
                 c == t.client
             IN  IF type \in RecordableTypes
                 THEN /\ DOMAIN client_ledger' = DOMAIN client_ledger \cup {c}
                      /\ \A d \in DOMAIN client_ledger :
                             client_ledger'[d] = client_ledger[d]
                      /\ client_ledger'[c] =
                             IF type = "deposit"
                             THEN [ZeroAccount(c) EXCEPT !.available = ToDecimal(t.amount),
                                                         !.total = ToDecimal(t.amount)]
                             ELSE ZeroAccount(c)
                      /\ tx_ledger' = tx_ledger
                 ELSE /\ client_ledger' = client_ledger
                      /\ tx_ledger' = tx_ledger]_vars

\* C15 witness: a dispute of the client's own record has been handled before
\* the client had an account, and there is still no account.
C15_Witness ==
    /\ last = << "dispute", "noaccount" >>
    /\ \E x \in DOMAIN tx_ledger : tx_ledger[x].client \notin DOMAIN client_ledger

\* C16, as the claim has it: a record of the transaction ledger is never
\* removed, and it changes only when process_transactions handles a dispute of
\* its id (disputed FALSE -> TRUE) or a resolve or chargeback of its id
\* (disputed TRUE -> FALSE), its amount and client staying as they were.
C16_RecordLifecycle ==
    [][\A x \in DOMAIN tx_ledger :
          /\ x \in DOMAIN tx_ledger'
          /\ tx_ledger'[x] # tx_ledger[x]
             => /\ tx_ledger'[x].amount = tx_ledger[x].amount
                /\ tx_ledger'[x].client = tx_ledger[x].client
                /\ Head(rx_transactions2).tx = x
                /\ \/ /\ Handles("dispute")
                      /\ ~tx_ledger[x].disputed /\ tx_ledger'[x].disputed
                   \/ /\ Handles("resolve") \/ Handles("chargeback")
                      /\ tx_ledger[x].disputed /\ ~tx_ledger'[x].disputed]_vars

\* C16, amended: a record of the transaction ledger is never removed, and it
\* changes only when process_transactions handles a dispute of its id
\* (disputed FALSE -> TRUE) or a resolve or chargeback of its id (disputed
\* TRUE -> FALSE), its amount and client staying as they were, or when
\* store_transactions receives a deposit or withdrawal bearing its id, which
\* replaces it by a record that is not disputed.
C16_RecordLifecycleWithReplacement ==
    [][\A x \in DOMAIN tx_ledger :
          /\ x \in DOMAIN tx_ledger'
          /\ tx_ledger'[x] # tx_ledger[x]
             => \/ /\ Receives
                   /\ last'[2].tx_type \in RecordableTypes
                   /\ last'[2].tx = x
                   /\ ~tx_ledger'[x].disputed
                \/ /\ ~Receives
                   /\ tx_ledger'[x].amount = tx_ledger[x].amount
                   /\ tx_ledger'[x].client = tx_ledger[x].client
                   /\ Head(rx_transactions2).tx = x
                   /\ \/ /\ Handles("dispute")
                         /\ ~tx_ledger[x].disputed /\ tx_ledger'[x].disputed
                      \/ /\ Handles("resolve") \/ Handles("chargeback")
                         /\ tx_ledger[x].disputed /\ ~tx_ledger'[x].disputed]_vars

\* C16 witness: client 2's deposit has just replaced the record of client 1's
\* deposit while that deposit was disputed (its amount is still held).
C16_Witness ==
    /\ last[1] = "forward"
    /\ last[2].tx_type \in RecordableTypes
    /\ \E c \in DOMAIN client_ledger :
        /\ c # last[2].client
        /\ client_ledger[c].held > 0
    /\ tx_ledger[last[2].tx].client = last[2].client
    /\ \A x \in DOMAIN tx_ledger : ~tx_ledger[x].disputed

\* C17: when store_transactions receives a row whose type is none of the five,
\* it ends with the error: the row is neither recorded nor forwarded; from then
\* on store_transactions receives no row and changes nothing, and the channel
\* to process_transactions only loses rows at its head.
C17_InvalidTypeAborts ==
    [][/\ (Receives /\ last'[2].tx_type \notin ValidTypes)
          => /\ store'.status = "err"
             /\ tx_ledger' = tx_ledger
             /\ client_ledger' = client_ledger
             /\ rx_transactions2' = rx_transactions2
       /\ store.status = "err"
          => /\ store' = store
             /\ ~Receives
             /\ rx_transactions2' = rx_transactions2 \/ Takes
             /\ DOMAIN tx_ledger' = DOMAIN tx_ledger
             /\ \A x \in DOMAIN tx_ledger :
                    /\ tx_ledger'[x].amount = tx_ledger[x].amount
                    /\ tx_ledger'[x].client = tx_ledger[x].client]_vars

\* C17 witness: store_transactions has ended on a row of unknown type after
\* recording a transaction; process_transactions has applied what was
\* forwarded, and a row read after the unknown one is still in the first channel.
C17_Witness ==
    /\ store.status = "err"
    /\ rx_transactions > 0
    /\ rx_transactions2 = << >>
    /\ tx_ledger # EmptyMap
    /\ client_ledger # EmptyMap

\* C18: handling a row that breaks a business rule leaves process_transactions
\* running, with its retry budget as it was, and takes just that row off the
\* channel; and whenever process_transactions is running with a row in its
\* channel it can handle that row.
C18_ViolationDoesNotHalt ==
    /\ [][\A type \in ValidTypes :
             (Handles(type) /\ Violates(Head(rx_transactions2)))
             => /\ process.status = "run"
                /\ process' = process
                /\ store' = store]_vars
    /\ []((process.status = "run" /\ rx_transactions2 # << >>) => ENABLED ProcessHandles)

\* C18 witness: a withdrawal has been refused for lack of funds and the rows
\* queued behind it are still to be handled by the running task.
C18_Witness ==
    /\ last = << "withdrawal", "insufficient" >>
    /\ process.status = "run"
    /\ Len(rx_transactions2) >= 2

C20_RecordBeforeForward ==
    /\ [](\A i \in 1..Len(rx_transactions2) :
              rx_transactions2[i].tx_type \in RecordableTypes
              => rx_transactions2[i].tx \in DOMAIN tx_ledger)
    /\ [][DOMAIN tx_ledger \subseteq DOMAIN tx_ledger']_vars

\* C20 witness: process_transactions has handled client 2's deposit, the first
\* row it sees, and the record of that deposit is in the transaction ledger.
C20_Witness ==
    /\ last = << "deposit", "created" >>
    /\ DOMAIN client_ledger = {2}
    /\ 2 \in DOMAIN tx_ledger
    /\ tx_ledger[2].client = 2

\* C22: a stage leaves its loop only on an empty poll, and a poll that
\* returns a row restarts the count of empty polls: after a row is received
\* by a stage that goes on running, the whole retry budget is ahead of it, so
\* that only RetryBudget empty polls in a row end the stage.
C22_ReceiveRestartsCount ==
    [][/\ (store.status = "run" /\ store'.status = "stopped")
          => (rx_transactions = 0 /\ rx_transactions' = rx_transactions)
       /\ (process.status = "run" /\ process'.status = "stopped")
          => (rx_transactions2 = << >> /\ rx_transactions2' = rx_transactions2)
       /\ (Receives /\ store'.status = "run") => store'.retry = RetryBudget
       /\ (Takes /\ process'.status = "run") => process'.retry = RetryBudget]_vars

\* C26: when the reader, store_transactions and process_transactions have all
\* ended without an error or a panic (start_writing is then set), every row
\* the reader sent has been handled by process_transactions: none is left in
\* either channel.
C26_NoSilentLoss ==
    (reader = "done" /\ store.status = "ok" /\ process.status = "ok")
    => /\ start_writing
       /\ rx_transactions = 0
       /\ rx_transactions2 = << >>

\* C23: under fair scheduling store_transactions and process_transactions
\* each end eventually, by returning Ok once the retry budget is spent or by
\* an error or a panic: neither stays in its loop forever.
C23_StagesTerminate ==
    /\ <>(store.status \in {"ok", "err", "panic"})
    /\ <>(process.status \in {"ok", "err", "panic"})

\* C23 witness: both stages have ended after handling rows, store_transactions
\* by a failed send and process_transactions through its retry budget, and a
\* row the reader sent is still in the first channel.
C23_Witness ==
    /\ store.status = "panic"
    /\ process.status = "ok"
    /\ client_ledger # EmptyMap
    /\ rx_transactions > 0

\* The sum of the amounts of the records of the given ids that the client
\* owns and that are disputed.
RECURSIVE DisputedAmount(_, _)
DisputedAmount(ids, c) ==
    IF ids = {} THEN 0
    ELSE LET x == CHOOSE y \in ids : TRUE
             r == tx_ledger[x]
         IN  (IF r.client = c /\ r.disputed THEN r.amount ELSE 0)
             + DisputedAmount(ids \ {x}, c)

\* C24: in every state, every account's held amount is the sum of the amounts
\* of the disputed records its client owns.
C24_HeldIsDisputedSum ==
    \A c \in DOMAIN client_ledger :
        client_ledger[c].held = DisputedAmount(DOMAIN tx_ledger, c)

\* C25: whenever every row read so far has been handled (both channels are
\* empty) and no task has ended, the two ledgers are what handling those rows
\* one at a time, each recorded and then applied, in the order received,
\* makes of them: so they are the same under every interleaving of the tasks.
C25_InterleavingIndependent ==
    (rx_transactions = 0 /\ rx_transactions2 = << >>)
    => /\ client_ledger = sequential[1].cl
       /\ tx_ledger = sequential[1].tl

\* The task whose guard the given task is waiting for, or "none": the mutex it
\* is about to lock is held by another task.
WaitsOn(p) ==
    LET other(g) == IF g \in {"free", p} THEN "none" ELSE g
    IN  CASE p = "store" ->
                IF hand.store # None THEN other(guards.tx_ledger) ELSE "none"
          [] p = "process" ->
                IF InHand(RecordableTypes) THEN other(guards.client_ledger)
                ELSE IF InHand(PassThroughTypes) /\ guards.tx_ledger # "process"
                THEN other(guards.tx_ledger)
                ELSE IF InHand(PassThroughTypes) /\ Found(hand.process[1])
                THEN other(guards.client_ledger)
                ELSE "none"
          [] p = "writer" ->
                IF WriterRuns /\ start_writing THEN other(guards.client_ledger)
                ELSE "none"
          [] OTHER -> "none"

Tasks == {"store", "process", "writer"}

\* C21: a task working on a dispute, resolve or chargeback takes the client
\* lock only while it holds the transaction lock; no task takes, or waits
\* for, the transaction lock while it holds the client lock; and no task ever
\* waits for a lock whose holder is waiting too, and whenever a task has a
\* row in hand, or the writer is due, that task or the holder of the lock it
\* waits for can take a step: no state is a deadlock.
C21_LockOrder ==
    /\ []((InHand(PassThroughTypes) /\ guards.client_ledger = "process")
          => guards.tx_ledger = "process")
    /\ [][/\ (guards'.tx_ledger # guards.tx_ledger /\ guards'.tx_ledger # "free")
             => guards.client_ledger # guards'.tx_ledger
          /\ (guards'.client_ledger # guards.client_ledger
              /\ guards'.client_ledger = "process" /\ InHand(PassThroughTypes))
             => guards.tx_ledger = "process"]_vars
    /\ [](\A p \in Tasks :
              /\ (WaitsOn(p) # "none" /\ p # "writer")
                 => guards.client_ledger # p
              /\ WaitsOn(p) # "none" => WaitsOn(WaitsOn(p)) = "none")
    /\ []((hand.store # None
              => ENABLED (StoreLock \/ StoreInsert \/ ProcessStepLocked))
          /\ (hand.process # None
              => ENABLED (ProcessStepLocked \/ StoreInsert))
          /\ (WriterRuns => ENABLED (WriteLock \/ WriteDone)))

\* C21 witness: store_transactions, a deposit or withdrawal in hand, waits for
\* the transaction lock while process_transactions holds both locks for a
\* dispute, resolve or chargeback.
C21_Witness ==
    /\ hand.store # None
    /\ WaitsOn("store") = "process"
    /\ InHand(PassThroughTypes)
    /\ guards = [tx_ledger |-> "process", client_ledger |-> "process"]

====
